---- MODULE Spec2Model ----
(***************************************************************************)
(* zk-money: the account migration form (MigrateForm), the Euler           *)
(* redemption bridge-data adapter and the progress template, as a state    *)
(* machine.  Every awaited external call is an element of `calls` from the  *)
(* moment the code issues it until its promise settles; the code between   *)
(* two awaits is one atomic step (single-threaded event loop).             *)
(***************************************************************************)
EXTENDS Integers, Sequences, FiniteSets, TLC

\* ------------------------------------------------------------------ bounds
NumAssets == 2
NumProviders == 1
MaxNotes == 2
MaxValue == 1
MaxFee == 1
MaxSubmit == 2
MaxOpsc == 1
MaxInit == 1

Assets == 1..NumAssets
Providers == 1..NumProviders
NoProvider == 0
Fees == 0..MaxFee
NoteValues == 1..MaxValue
NoteLists == UNION {[1..n -> NoteValues] : n \in 0..MaxNotes}

\* ------------------------------------------------------- MigrateStatus enum
CONNECT == 0
SYNC == 1
CONFIRM == 2
VALIDATE == 3
MIGRATE == 4
DONE == 5

\* ------------------------------------------------------------ form helpers
NoMessage == "undefined"
InsufficientFee == "Insufficient fee."
SignatureDenied == "Message signature denied."
SomethingWrong == "Something went wrong. This shouldn't happen."
SignPrompt == "To check the balances in your old account, please sign the following hash in your wallet"

MergeRec(a, b) ==
  [f \in (DOMAIN a) \cup (DOMAIN b) |-> IF f \in DOMAIN b THEN b[f] ELSE a[f]]

\* form.ts: every value named by `changes` is merged field by field
mergeValues(form, changes) ==
  [k \in DOMAIN form |-> IF k \in DOMAIN changes THEN MergeRec(form[k], changes[k]) ELSE form[k]]

withError(input, message) == MergeRec(input, [message |-> message, messageType |-> "ERROR"])

withWarning(input, message) == MergeRec(input, [message |-> message, messageType |-> "WARNING"])

clearMessage(input) == MergeRec(input, [message |-> NoMessage, messageType |-> NoMessage])

isValidForm(form) == \A k \in DOMAIN form : form[k].messageType # "ERROR"

\* ------------------------------------------------------------ pure helpers
RECURSIVE SumSeq(_)
SumSeq(s) == IF s = <<>> THEN 0 ELSE Head(s) + SumSeq(Tail(s))

Slice2(s, i) == SubSeq(s, i, IF i + 1 <= Len(s) THEN i + 1 ELSE Len(s))

RECURSIVE MigratableFrom(_, _, _)
MigratableFrom(values, fee, i) ==
  IF i > Len(values) THEN <<>>
  ELSE LET noteValues == Slice2(values, i)
           amount == SumSeq(noteValues)
       IN (IF amount > fee THEN noteValues ELSE <<>>) \o MigratableFrom(values, fee, i + 2)

\* faulty variant: no pair is dropped
getMigratableValuesAll(values, fee) == values

getMigratableValues(values, fee) == MigratableFrom(values, fee, 1)

RECURSIVE InsertDesc(_, _)
InsertDesc(s, v) ==
  IF s = <<>> THEN <<v>>
  ELSE IF Head(s) < v THEN <<v>> \o s
  ELSE <<Head(s)>> \o InsertDesc(Tail(s), v)

RECURSIVE SortDesc(_)
SortDesc(s) == IF s = <<>> THEN <<>> ELSE InsertDesc(SortDesc(Tail(s)), Head(s))

CeilHalf(n) == (n + 1) \div 2

\* the amounts the inner loop of migrateNotes computes from pair i onwards
\* (lines 274, 279)
RECURSIVE AmountsFrom(_, _, _)
AmountsFrom(migratableValues, fee, i) ==
  IF i > Len(migratableValues) THEN <<>>
  ELSE <<SumSeq(Slice2(migratableValues, i)) - fee>> \o AmountsFrom(migratableValues, fee, i + 2)

NoPairing == [values |-> <<>>, fee |-> 0, migratableValues |-> <<>>, amounts |-> <<>>]

\* --------------------------------------------------------- ProgressTemplate
\* line 135: !!message is false for undefined and for the empty string
failed(message, messageType) == messageType = "ERROR" /\ message \notin {NoMessage, ""}

\* faulty variant: a step counts as done as soon as it is the current one
createProgressEager(stepStatus, currentStatus, isFailed) ==
  [key |-> stepStatus,
   done |-> stepStatus <= currentStatus,
   isLoading |-> stepStatus = currentStatus /\ ~isFailed,
   failed |-> stepStatus = currentStatus /\ isFailed,
   inactive |-> stepStatus > currentStatus]

\* the props createProgress passes to TxProgress (lines 139-148)
createProgress(stepStatus, currentStatus, isFailed) ==
  [key |-> stepStatus,
   done |-> stepStatus < currentStatus,
   isLoading |-> stepStatus = currentStatus /\ ~isFailed,
   failed |-> stepStatus = currentStatus /\ isFailed,
   inactive |-> stepStatus > currentStatus]

NoRender == [currentStatus |-> 0, confirmStatus |-> 0, doneStatus |-> 0, formValid |-> TRUE,
             message |-> NoMessage, messageType |-> NoMessage, steps |-> <<>>, rows |-> <<>>]

\* -------------------------------------------- EulerRedemptionBridgeData
\* A bigint is the sequence of its base-1000 digits, lowest first, with no
\* leading zero digit: <<>> is 0n.
Base == 1000

RECURSIVE Trim(_)
Trim(a) == IF a = <<>> \/ a[Len(a)] # 0 THEN a ELSE Trim(SubSeq(a, 1, Len(a) - 1))

RECURSIVE FromNat(_)
FromNat(n) == IF n = 0 THEN <<>> ELSE <<n % Base>> \o FromNat(n \div Base)

RECURSIVE AddCarry(_, _, _)
AddCarry(a, b, carry) ==
  IF a = <<>> /\ b = <<>> THEN (IF carry = 0 THEN <<>> ELSE <<carry>>)
  ELSE LET x == IF a = <<>> THEN 0 ELSE Head(a)
           y == IF b = <<>> THEN 0 ELSE Head(b)
           t == x + y + carry
       IN <<t % Base>> \o AddCarry(IF a = <<>> THEN a ELSE Tail(a),
                                   IF b = <<>> THEN b ELSE Tail(b), t \div Base)

BigAdd(a, b) == Trim(AddCarry(a, b, 0))

RECURSIVE MulDigit(_, _, _)
MulDigit(a, d, carry) ==
  IF a = <<>> THEN (IF carry = 0 THEN <<>> ELSE <<carry>>)
  ELSE LET t == Head(a) * d + carry
       IN <<t % Base>> \o MulDigit(Tail(a), d, t \div Base)

RECURSIVE BigMul(_, _)
BigMul(a, b) ==
  IF b = <<>> THEN <<>>
  ELSE BigAdd(Trim(MulDigit(a, Head(b), 0)),
              LET rest == BigMul(a, Tail(b)) IN IF rest = <<>> THEN <<>> ELSE <<0>> \o rest)

\* a and b have the same number of digits: compare from digit i downwards
RECURSIVE LessFrom(_, _, _)
LessFrom(a, b, i) ==
  IF i = 0 THEN FALSE
  ELSE IF a[i] # b[i] THEN a[i] < b[i]
  ELSE LessFrom(a, b, i - 1)

BigLess(a, b) == IF Len(a) # Len(b) THEN Len(a) < Len(b) ELSE LessFrom(a, b, Len(a))

BigLeq(a, b) == a = b \/ BigLess(a, b)

\* a * 1000^k
ShiftUp(a, k) == IF a = <<>> THEN <<>> ELSE [j \in 1..k |-> 0] \o a

\* 10n ** 18n = 1000^6
WadDigits == 6

Wad == ShiftUp(<<1>>, WadDigits)

\* bigint division by 10n ** 18n truncates: the six lowest digits are dropped
DivWad(a) == IF Len(a) <= WadDigits THEN <<>> ELSE SubSeq(a, WadDigits + 1, Len(a))

Undefined == <<-1>>

\* 99n * 10n ** 16n = 990 * 1000^5, 96n * 10n ** 16n = 960 * 1000^5
minTokenOut(id) ==
  CASE id = 0 -> ShiftUp(<<990>>, 5)
    [] id = 1 -> ShiftUp(<<960>>, 5)
    [] id = 2 -> ShiftUp(<<990>>, 5)
    [] id = 5 -> ShiftUp(<<990>>, 5)
    [] id = 6 -> ShiftUp(<<990>>, 5)
    [] id = 7 -> ShiftUp(<<960>>, 5)
    [] OTHER -> Undefined

NotImplemented == "Method not implemented."

NoEulerCall == [call |-> "none", id |-> 0, auxData |-> <<>>, inputValue |-> <<>>,
                result |-> <<>>, error |-> "none", contractCalls |-> 0]

\* ------------------------------------------------------------------- state
VARIABLES
  values,       \* this.values: migratingAssets, status, submit
  formStatus,   \* this.formStatus
  destroyed,    \* this.destroyed
  provider,     \* this.provider (NoProvider when undefined)
  keyVault,     \* this.keyVault: the provider account it was created from (0: undefined)
  listeners,    \* per provider: registrations of onProviderStateChange
  calls,        \* external calls issued and not yet settled
  opscCount,    \* invocations of onProviderStateChange that reached createV0
  inits,        \* calls of init()
  sync,         \* the syncBalance run: pc, key vault read, asset results
  runs,         \* the submit() runs, in call order
  rejected,     \* the external call whose rejection the last step handled
  sendOk,       \* per asset: sendProof calls that resolved
  nothingFound, \* syncBalance took the "Nothing to migrate." branch
  euler,        \* the last call of an EulerRedemptionBridgeData method and its outcome
  pairing,      \* the last getMigratableValues call and the amounts migrateNotes takes from it
  progress      \* the last render of ProgressTemplate: its props and its progress rows

formVars == <<values, formStatus, destroyed, provider, keyVault, listeners, calls,
              opscCount, inits, sync, runs, rejected, sendOk, nothingFound>>

viewVars == <<pairing, progress>>

vars == <<formVars, euler, viewVars>>

status == values.status.value

locked == formStatus = "LOCKED" \/ formStatus = "PROCESSING"

processing == formStatus = "PROCESSING"

Call(op, by, n, asset, arg) == [op |-> op, by |-> by, n |-> n, asset |-> asset, arg |-> arg]

InitialAsset(id) ==
  [assetId |-> id, fee |-> 0, totalFee |-> 0, values |-> <<>>,
   migratableValues |-> <<>>, migratedValues |-> <<>>]

initialMigrateFormValues ==
  [migratingAssets |-> [value |-> [a \in Assets |-> InitialAsset(a)],
                        message |-> NoMessage, messageType |-> NoMessage],
   status |-> [value |-> CONNECT, message |-> NoMessage, messageType |-> NoMessage],
   submit |-> [value |-> FALSE, message |-> NoMessage, messageType |-> NoMessage]]

IdleSync == [pc |-> "idle", vault |-> 0, result |-> [a \in Assets |-> InitialAsset(a)],
             notes |-> [a \in Assets |-> <<>>], ready |-> {}]

Init ==
  /\ values = initialMigrateFormValues
  /\ formStatus = "ACTIVE"
  /\ destroyed = FALSE
  /\ provider \in {NoProvider} \cup Providers
  /\ keyVault = 0
  /\ listeners = [p \in Providers |-> 0]
  /\ calls = {}
  /\ opscCount = 0
  /\ inits = 0
  /\ sync = IdleSync
  /\ runs = <<>>
  /\ rejected = "none"
  /\ sendOk = [a \in Assets |-> 0]
  /\ nothingFound = FALSE
  /\ euler = NoEulerCall
  /\ pairing = NoPairing
  /\ progress = NoRender

\* ----------------------------------------------------- provider listeners
On(ls, p) == IF p = NoProvider THEN ls ELSE [ls EXCEPT ![p] = @ + 1]

Off(ls, p) == IF p = NoProvider \/ ls[p] = 0 THEN ls ELSE [ls EXCEPT ![p] = @ - 1]

\* onProviderStateChange up to its await, invoked `n` times in a row with
\* this.provider = p; the invocations find the same state and each one that
\* passes the two guards issues its own KeyVault.createV0
StateChangeStart(n, p, ls) ==
  /\ listeners' = ls
  /\ provider' = p
  /\ rejected' = "none"
  /\ IF status # CONNECT
     THEN UNCHANGED <<values, calls, opscCount>>
     ELSE IF p = NoProvider
     THEN /\ values' = mergeValues(values, [submit |-> clearMessage([value |-> FALSE])])
          /\ UNCHANGED <<calls, opscCount>>
     ELSE /\ values' = mergeValues(values, [submit |-> withWarning([value |-> TRUE], SignPrompt)])
          /\ calls' = calls \cup {Call("createV0", "opsc", opscCount + j, 0, p) : j \in 1..n}
          /\ opscCount' = opscCount + n
  /\ UNCHANGED <<formStatus, destroyed, keyVault, sync, runs, sendOk, nothingFound, euler, viewVars>>

init ==
  /\ inits' = inits + 1
  /\ StateChangeStart(1, provider, On(listeners, provider))

\* the provider emits UPDATED_PROVIDER_STATE: every registration is invoked
ProviderStateEvent(p) ==
  /\ listeners[p] > 0
  /\ UNCHANGED inits
  /\ StateChangeStart(listeners[p], provider, listeners)

changeProvider(p) ==
  /\ UNCHANGED inits
  /\ IF status # CONNECT
     THEN /\ rejected' = "none"
          /\ UNCHANGED <<values, formStatus, destroyed, provider, keyVault, listeners, calls,
                         opscCount, sync, runs, sendOk, nothingFound, euler, viewVars>>
     ELSE StateChangeStart(1, p, On(Off(listeners, provider), p))

\* ------------------------------------------- onProviderStateChange, resumed
SyncUnchanged == UNCHANGED <<destroyed, provider, opscCount, inits, runs, sendOk, euler, viewVars>>

\* catch block of onProviderStateChange (lines 324-328)
CatchStateChange(vs) ==
  IF vs.status.value = CONNECT
  THEN mergeValues(vs, [submit |-> withError([value |-> FALSE], SignatureDenied)])
  ELSE vs

\* syncBalance up to its first await (lines 214-219)
SyncStart(cs) ==
  /\ formStatus' = "PROCESSING"
  /\ values' = mergeValues(values, [status |-> [value |-> SYNC]])
  /\ sync' = [sync EXCEPT !.pc = "addUser", !.vault = keyVault']
  /\ calls' = cs \cup {Call("addUser", "sync", 0, 0, keyVault')}

\* faulty variant: syncBalance is started without the check of this.status
CreateV0ResolveUnchecked(c) ==
  /\ c \in calls /\ c.op = "createV0"
  /\ keyVault' = c.arg
  /\ rejected' = "none"
  /\ IF ~destroyed
     THEN IF provider = NoProvider
          THEN /\ values' = CatchStateChange(values)
               /\ calls' = calls \ {c}
               /\ UNCHANGED <<formStatus, listeners, sync>>
          ELSE /\ listeners' = Off(listeners, provider)
               /\ SyncStart(calls \ {c})
     ELSE /\ calls' = calls \ {c}
          /\ UNCHANGED <<values, formStatus, listeners, sync>>
  /\ UNCHANGED nothingFound
  /\ SyncUnchanged

\* KeyVault.createV0 resolves (lines 319-323)
CreateV0Resolve(c) ==
  /\ c \in calls /\ c.op = "createV0"
  /\ keyVault' = c.arg
  /\ rejected' = "none"
  /\ IF ~destroyed /\ status = CONNECT
     THEN IF provider = NoProvider
          THEN \* this.provider.off(...) on undefined throws into the catch block
               /\ values' = CatchStateChange(values)
               /\ calls' = calls \ {c}
               /\ UNCHANGED <<formStatus, listeners, sync>>
          ELSE /\ listeners' = Off(listeners, provider)
               /\ SyncStart(calls \ {c})
     ELSE /\ calls' = calls \ {c}
          /\ UNCHANGED <<values, formStatus, listeners, sync>>
  /\ UNCHANGED nothingFound
  /\ SyncUnchanged

CreateV0Reject(c) ==
  /\ c \in calls /\ c.op = "createV0"
  /\ calls' = calls \ {c}
  /\ rejected' = "createV0"
  /\ values' = CatchStateChange(values)
  /\ UNCHANGED <<formStatus, keyVault, listeners, sync, nothingFound>>
  /\ SyncUnchanged

\* ----------------------------------------------------------- syncBalance
\* a rejection inside syncBalance leaves it and reaches the catch block of
\* onProviderStateChange
SyncReject(c, op) ==
  /\ calls' = calls \ {c}
  /\ rejected' = op
  /\ sync' = [IdleSync EXCEPT !.pc = "failed", !.vault = sync.vault, !.notes = sync.notes]
  /\ values' = CatchStateChange(values)
  /\ UNCHANGED <<formStatus, keyVault, listeners, nothingFound>>
  /\ SyncUnchanged

AddUserResolve(c) ==
  /\ c \in calls /\ c.op = "addUser"
  /\ calls' = (calls \ {c}) \cup {Call("awaitUserSynchronised", "sync", 0, 0, sync.vault)}
  /\ sync' = [sync EXCEPT !.pc = "awaitSync"]
  /\ rejected' = "none"
  /\ UNCHANGED <<values, formStatus, keyVault, listeners, nothingFound>>
  /\ SyncUnchanged

AddUserReject(c) ==
  /\ c \in calls /\ c.op = "addUser"
  /\ SyncReject(c, "addUser")

\* Promise.all over the assets: every callback runs up to its first await
AwaitUserSynchronisedResolve(c) ==
  /\ c \in calls /\ c.op = "awaitUserSynchronised"
  /\ calls' = (calls \ {c}) \cup
              {Call("getSpendableNotes", "sync", 0, values.migratingAssets.value[a].assetId, sync.vault) :
                 a \in Assets}
  /\ sync' = [sync EXCEPT !.pc = "all"]
  /\ rejected' = "none"
  /\ UNCHANGED <<values, formStatus, keyVault, listeners, nothingFound>>
  /\ SyncUnchanged

AwaitUserSynchronisedReject(c) ==
  /\ c \in calls /\ c.op = "awaitUserSynchronised"
  /\ SyncReject(c, "awaitUserSynchronised")

GetSpendableNotesResolve(c, notes) ==
  /\ c \in calls /\ c.op = "getSpendableNotes"
  /\ calls' = (calls \ {c}) \cup {Call("getFee", "sync", 0, c.asset, 0)}
  /\ sync' = [sync EXCEPT !.notes[c.asset] = SortDesc(notes)]
  /\ rejected' = "none"
  /\ UNCHANGED <<values, formStatus, keyVault, listeners, nothingFound>>
  /\ SyncUnchanged

\* one callback of the Promise.all rejects: the first rejection rejects the
\* Promise.all, a later one is dropped; the other callbacks keep running
AssetTaskReject(c, op) ==
  IF sync.pc = "all"
  THEN SyncReject(c, op)
  ELSE /\ calls' = calls \ {c}
       /\ rejected' = op
       /\ UNCHANGED <<values, formStatus, keyVault, listeners, sync, nothingFound>>
       /\ SyncUnchanged

GetSpendableNotesReject(c) ==
  /\ c \in calls /\ c.op = "getSpendableNotes"
  /\ AssetTaskReject(c, "getSpendableNotes")

\* the object one callback returns (lines 227-237)
SyncedAsset(id, vals, fee) ==
  LET migratableValues == getMigratableValues(vals, fee)
  IN [assetId |-> id, fee |-> fee, totalFee |-> fee * CeilHalf(Len(migratableValues)),
      values |-> vals, migratableValues |-> migratableValues, migratedValues |-> <<>>]

\* faulty variant: every() where the code has some()
NothingToMigrateEvery(migratingAssets) ==
  ~(\A a \in Assets : Len(migratingAssets[a].migratableValues) # 0)

NothingToMigrate(migratingAssets) ==
  ~(\E a \in Assets : Len(migratingAssets[a].migratableValues) # 0)

\* faulty variant: the wrong member of MigrateStatus
SyncFinishToConnect(migratingAssets, cs) ==
  /\ calls' = cs
  /\ formStatus' = "LOCKED"
  /\ values' = mergeValues(values, [migratingAssets |-> [value |-> migratingAssets],
                                    status |-> [value |-> CONNECT]])

\* lines 246-247
SyncFinish(migratingAssets, cs) ==
  /\ calls' = cs
  /\ formStatus' = "LOCKED"
  /\ values' = mergeValues(values, [migratingAssets |-> [value |-> migratingAssets],
                                    status |-> [value |-> CONFIRM]])

SyncGetFeeResolve(c, fee) ==
  /\ c \in calls /\ c.op = "getFee" /\ c.by = "sync"
  /\ rejected' = "none"
  /\ LET result == [sync.result EXCEPT ![c.asset] = SyncedAsset(c.asset, sync.notes[c.asset], fee)]
         ready == sync.ready \cup {c.asset}
     IN IF sync.pc = "all" /\ ready = Assets
        THEN IF NothingToMigrate(result)
             THEN /\ calls' = (calls \ {c}) \cup {Call("removeUser", "sync", 0, 0, sync.vault)}
                  /\ sync' = [sync EXCEPT !.pc = "removeUser", !.result = result, !.ready = ready]
                  /\ nothingFound' = TRUE
                  /\ UNCHANGED <<values, formStatus>>
             ELSE /\ SyncFinish(result, calls \ {c})
                  /\ sync' = [IdleSync EXCEPT !.pc = "done", !.vault = sync.vault]
                  /\ UNCHANGED nothingFound
        ELSE /\ calls' = calls \ {c}
             /\ sync' = IF sync.pc = "all"
                        THEN [sync EXCEPT !.result = result, !.ready = ready]
                        ELSE [sync EXCEPT !.notes[c.asset] = <<>>]
             /\ UNCHANGED <<values, formStatus, nothingFound>>
  /\ UNCHANGED <<keyVault, listeners>>
  /\ SyncUnchanged

SyncGetFeeReject(c) ==
  /\ c \in calls /\ c.op = "getFee" /\ c.by = "sync"
  /\ AssetTaskReject(c, "getFee")

SyncRemoveUserResolve(c) ==
  /\ c \in calls /\ c.op = "removeUser" /\ c.by = "sync"
  /\ SyncFinish(sync.result, calls \ {c})
  /\ sync' = [IdleSync EXCEPT !.pc = "done", !.vault = sync.vault]
  /\ rejected' = "none"
  /\ UNCHANGED <<keyVault, listeners, nothingFound>>
  /\ SyncUnchanged

SyncRemoveUserReject(c) ==
  /\ c \in calls /\ c.op = "removeUser" /\ c.by = "sync"
  /\ SyncReject(c, "removeUser")

\* ------------------------------------------------------------- submit()
RunUnchanged == UNCHANGED <<destroyed, provider, keyVault, listeners, opscCount, inits, sync,
                            nothingFound, euler, viewVars>>

NoPair == <<0, 0>>

\* the next iteration of the two nested loops of migrateNotes at or after
\* pair index i of asset a (lines 272-274); i counts from 1
RECURSIVE NextPair(_, _, _)
NextPair(migratingAssets, a, i) ==
  IF a > NumAssets THEN NoPair
  ELSE IF i <= Len(migratingAssets[a].migratableValues) THEN <<a, i>>
  ELSE NextPair(migratingAssets, a + 1, 1)

NewRun(form) ==
  [pc |-> "validate", outcome |-> "running", form |-> form, k |-> 1,
   assets |-> form.migratingAssets.value, a |-> 0, i |-> 0, amount |-> 0, vault |-> 0,
   insufficient |-> FALSE, sent |-> {}]

\* a run that has returned or thrown: its locals are gone; `insufficient` and
\* `sent` (the pairs <<asset, i>> whose sendProof resolved) record what it did
EndRun(run, outcome) ==
  [NewRun(initialMigrateFormValues) EXCEPT !.pc = "ended", !.outcome = outcome,
                                           !.insufficient = run.insufficient,
                                           !.sent = run.sent]

\* catch block of submit and the statement after it (lines 189-195)
CatchSubmit(r, run, vs, cs) ==
  /\ values' = mergeValues(vs, [submit |-> withError([value |-> FALSE], SomethingWrong)])
  /\ formStatus' = "LOCKED"
  /\ runs' = [runs EXCEPT ![r] = EndRun(run, "failed")]
  /\ calls' = cs

\* faulty variant: the loops without the check of this.destroyed
MigrateLoopUnchecked(r, run, a, i, vs, cs) ==
  LET pos == NextPair(run.assets, a, i)
  IN IF pos = NoPair
     THEN /\ calls' = cs \cup {Call("removeUser", "submit", r, 0, run.vault)}
          /\ runs' = [runs EXCEPT ![r] = [run EXCEPT !.a = NumAssets + 1, !.i = 1]]
          /\ values' = vs
          /\ UNCHANGED formStatus
     ELSE LET asset == run.assets[pos[1]]
              amount == SumSeq(Slice2(asset.migratableValues, pos[2])) - asset.fee
          IN /\ calls' = cs \cup {Call("createTransferProof", "submit", r, asset.assetId, amount)}
             /\ runs' = [runs EXCEPT ![r] = [run EXCEPT !.a = pos[1], !.i = pos[2],
                                                        !.amount = amount]]
             /\ values' = vs
             /\ UNCHANGED formStatus

\* the loops of migrateNotes from pair i of asset a up to the next await or
\* return (lines 272-282, 292), then line 195 when migrateNotes returned
MigrateLoop(r, run, a, i, vs, cs) ==
  LET pos == NextPair(run.assets, a, i)
  IN IF pos = NoPair
     THEN /\ calls' = cs \cup {Call("removeUser", "submit", r, 0, run.vault)}
          /\ runs' = [runs EXCEPT ![r] = [run EXCEPT !.a = NumAssets + 1, !.i = 1]]
          /\ values' = vs
          /\ UNCHANGED formStatus
     ELSE IF destroyed
     THEN /\ calls' = cs
          /\ runs' = [runs EXCEPT ![r] = EndRun([run EXCEPT !.a = pos[1], !.i = pos[2]], "returned")]
          /\ values' = vs
          /\ formStatus' = "LOCKED"
     ELSE LET asset == run.assets[pos[1]]
              amount == SumSeq(Slice2(asset.migratableValues, pos[2])) - asset.fee
          IN /\ calls' = cs \cup {Call("createTransferProof", "submit", r, asset.assetId, amount)}
             /\ runs' = [runs EXCEPT ![r] = [run EXCEPT !.a = pos[1], !.i = pos[2],
                                                        !.amount = amount]]
             /\ values' = vs
             /\ UNCHANGED formStatus

\* migrateNotes up to its first await (lines 251, 268-271), inside the try
MigrateStart(r, run, vs, cs) ==
  LET vs1 == mergeValues(vs, [status |-> [value |-> MIGRATE]])
      run1 == [run EXCEPT !.pc = "migrate", !.assets = vs1.migratingAssets.value,
                          !.vault = keyVault]
  IN IF keyVault = 0
     THEN \* destructuring the undefined key vault throws
          CatchSubmit(r, run1, vs1, cs)
     ELSE MigrateLoop(r, run1, 1, 1, vs1, cs)

\* faulty variant: the invalid branch does not put status back to CONFIRM
ValidatedKeepsStatus(r, run, form, vs, cs) ==
  IF ~isValidForm(form)
  THEN /\ values' = mergeValues(vs, mergeValues(form, [submit |-> clearMessage([value |-> FALSE])]))
       /\ formStatus' = "LOCKED"
       /\ runs' = [runs EXCEPT ![r] = EndRun([run EXCEPT !.form = form], "invalid")]
       /\ calls' = cs
  ELSE MigrateStart(r, [run EXCEPT !.form = form], vs, cs)

\* submit after validateValues returned `form` (lines 179-188)
Validated(r, run, form, vs, cs) ==
  IF ~isValidForm(form)
  THEN /\ values' = mergeValues(vs, mergeValues(form, [status |-> [value |-> CONFIRM],
                                                       submit |-> clearMessage([value |-> FALSE])]))
       /\ formStatus' = "LOCKED"
       /\ runs' = [runs EXCEPT ![r] = EndRun([run EXCEPT !.form = form], "invalid")]
       /\ calls' = cs
  ELSE MigrateStart(r, [run EXCEPT !.form = form], vs, cs)

\* submit() up to the first await of validateValues (lines 169-178, 199-203)
submit ==
  /\ rejected' = "none"
  /\ IF processing
     THEN UNCHANGED <<values, formStatus, calls, runs>>
     ELSE /\ formStatus' = "PROCESSING"
          /\ values' = mergeValues(values, [status |-> [value |-> VALIDATE],
                                            submit |-> clearMessage([value |-> TRUE])])
          /\ runs' = Append(runs, NewRun(values'))
          /\ calls' = calls \cup {Call("getFee", "submit", Len(runs) + 1,
                                       values'.migratingAssets.value[1].assetId, 0)}
  /\ UNCHANGED sendOk
  /\ RunUnchanged

\* sdk.getFee resolves inside validateValues (lines 203-210)
ValidateGetFeeResolve(c, fee) ==
  /\ c \in calls /\ c.op = "getFee" /\ c.by = "submit"
  /\ rejected' = "none"
  /\ LET r == c.n
         run == runs[r]
         asset == run.form.migratingAssets.value[run.k]
     IN IF fee > asset.fee
        THEN Validated(r, [run EXCEPT !.insufficient = TRUE],
                       [run.form EXCEPT !.migratingAssets =
                          withError(run.form.migratingAssets, InsufficientFee)],
                       values, calls \ {c})
        ELSE IF run.k < NumAssets
        THEN /\ calls' = (calls \ {c}) \cup
                         {Call("getFee", "submit", r,
                               run.form.migratingAssets.value[run.k + 1].assetId, 0)}
             /\ runs' = [runs EXCEPT ![r].k = run.k + 1]
             /\ UNCHANGED <<values, formStatus>>
        ELSE Validated(r, run, run.form, values, calls \ {c})
  /\ UNCHANGED sendOk
  /\ RunUnchanged

\* the rejection leaves validateValues and submit: nothing catches it
ValidateGetFeeReject(c) ==
  /\ c \in calls /\ c.op = "getFee" /\ c.by = "submit"
  /\ rejected' = "getFee"
  /\ calls' = calls \ {c}
  /\ runs' = [runs EXCEPT ![c.n] = EndRun(runs[c.n], "threw")]
  /\ UNCHANGED <<values, formStatus, sendOk>>
  /\ RunUnchanged

\* --------------------------------------------------------- migrateNotes
\* the closure updateMigratingAssets (lines 253-266)
updateMigratingAssets(vs, assetId, value) ==
  LET migratingAssets ==
        [a \in Assets |->
           IF vs.migratingAssets.value[a].assetId # assetId
           THEN vs.migratingAssets.value[a]
           ELSE [vs.migratingAssets.value[a] EXCEPT !.migratedValues = Append(@, value)]]
  IN mergeValues(vs, [migratingAssets |-> [value |-> migratingAssets]])

MigrateReject(c, op) ==
  /\ c \in calls /\ c.op = op /\ c.by = "submit"
  /\ rejected' = op
  /\ CatchSubmit(c.n, runs[c.n], values, calls \ {c})
  /\ UNCHANGED sendOk
  /\ RunUnchanged

\* faulty variant: sendProof is not awaited before the database write
CreateTransferProofResolveParallel(c) ==
  /\ c \in calls /\ c.op = "createTransferProof"
  /\ calls' = (calls \ {c}) \cup {Call("sendProof", "submit", c.n, c.asset, c.arg),
                                  Call("addMigratingTx", "submit", c.n, c.asset, c.arg)}
  /\ rejected' = "none"
  /\ UNCHANGED <<values, formStatus, runs, sendOk>>
  /\ RunUnchanged

CreateTransferProofResolve(c) ==
  /\ c \in calls /\ c.op = "createTransferProof"
  /\ calls' = (calls \ {c}) \cup {Call("sendProof", "submit", c.n, c.asset, c.arg)}
  /\ rejected' = "none"
  /\ UNCHANGED <<values, formStatus, runs, sendOk>>
  /\ RunUnchanged

CreateTransferProofReject(c) == MigrateReject(c, "createTransferProof")

SendProofResolve(c) ==
  /\ c \in calls /\ c.op = "sendProof"
  /\ calls' = (calls \ {c}) \cup {Call("addMigratingTx", "submit", c.n, c.asset, c.arg)}
  /\ sendOk' = [sendOk EXCEPT ![c.asset] = @ + 1]
  /\ runs' = [runs EXCEPT ![c.n].sent = @ \cup {<<runs[c.n].a, runs[c.n].i>>}]
  /\ rejected' = "none"
  /\ UNCHANGED <<values, formStatus>>
  /\ RunUnchanged

SendProofReject(c) == MigrateReject(c, "sendProof")

\* lines 288-289, then the loops go on
AddMigratingTxResolve(c) ==
  /\ c \in calls /\ c.op = "addMigratingTx"
  /\ rejected' = "none"
  /\ LET run == runs[c.n]
     IN MigrateLoop(c.n, run, run.a, run.i + 2,
                    updateMigratingAssets(values, run.assets[run.a].assetId, run.amount),
                    calls \ {c})
  /\ UNCHANGED sendOk
  /\ RunUnchanged

AddMigratingTxReject(c) == MigrateReject(c, "addMigratingTx")

\* line 294, then line 195
RemoveUserResolve(c) ==
  /\ c \in calls /\ c.op = "removeUser" /\ c.by = "submit"
  /\ calls' = calls \ {c}
  /\ values' = mergeValues(values, [status |-> [value |-> DONE]])
  /\ formStatus' = "LOCKED"
  /\ runs' = [runs EXCEPT ![c.n] = EndRun(runs[c.n], "done")]
  /\ rejected' = "none"
  /\ UNCHANGED sendOk
  /\ RunUnchanged

RemoveUserReject(c) == MigrateReject(c, "removeUser")

\* ------------------------------------------------- the other form methods
FormUnchanged == UNCHANGED <<provider, keyVault, calls, opscCount, inits, sync, runs, sendOk,
                             nothingFound, euler, viewVars>>

updateFormStatus(s) == formStatus' = s

unlock ==
  /\ updateFormStatus("ACTIVE")
  /\ rejected' = "none"
  /\ UNCHANGED <<values, destroyed, listeners>>
  /\ FormUnchanged

lock ==
  /\ updateFormStatus("LOCKED")
  /\ rejected' = "none"
  /\ UNCHANGED <<values, destroyed, listeners>>
  /\ FormUnchanged

\* throws, changing nothing, while the form is processing
destroy ==
  /\ rejected' = "none"
  /\ IF processing
     THEN UNCHANGED <<destroyed, listeners>>
     ELSE /\ destroyed' = TRUE
          /\ listeners' = Off(listeners, provider)
  /\ UNCHANGED <<values, formStatus>>
  /\ FormUnchanged

\* the caller changes the form's input, the submit flag
changeValues(changes) ==
  /\ rejected' = "none"
  /\ IF locked
     THEN UNCHANGED values
     ELSE values' = mergeValues(values, changes)
  /\ UNCHANGED <<formStatus, destroyed, listeners>>
  /\ FormUnchanged

\* ------------------------------------------------------------------- Next
Initialised == inits > 0

Next ==
  \/ inits < MaxInit /\ init
  \/ \E p \in Providers :
       Initialised /\ (status # CONNECT \/ opscCount + listeners[p] <= MaxOpsc) /\ ProviderStateEvent(p)
  \/ \E p \in {NoProvider} \cup Providers :
       Initialised /\ (status # CONNECT \/ opscCount < MaxOpsc) /\ changeProvider(p)
  \/ \E c \in calls : CreateV0Resolve(c)
  \/ \E c \in calls : CreateV0Reject(c)
  \/ \E c \in calls : AddUserResolve(c)
  \/ \E c \in calls : AddUserReject(c)
  \/ \E c \in calls : AwaitUserSynchronisedResolve(c)
  \/ \E c \in calls : AwaitUserSynchronisedReject(c)
  \/ \E c \in calls, notes \in NoteLists : GetSpendableNotesResolve(c, notes)
  \/ \E c \in calls : GetSpendableNotesReject(c)
  \/ \E c \in calls, fee \in Fees : SyncGetFeeResolve(c, fee)
  \/ \E c \in calls : SyncGetFeeReject(c)
  \/ \E c \in calls : SyncRemoveUserResolve(c)
  \/ \E c \in calls : SyncRemoveUserReject(c)
  \/ Initialised /\ Len(runs) < MaxSubmit /\ submit
  \/ \E c \in calls, fee \in Fees : ValidateGetFeeResolve(c, fee)
  \/ \E c \in calls : ValidateGetFeeReject(c)
  \/ \E c \in calls : CreateTransferProofResolve(c)
  \/ \E c \in calls : CreateTransferProofReject(c)
  \/ \E c \in calls : SendProofResolve(c)
  \/ \E c \in calls : SendProofReject(c)
  \/ \E c \in calls : AddMigratingTxResolve(c)
  \/ \E c \in calls : AddMigratingTxReject(c)
  \/ \E c \in calls : RemoveUserResolve(c)
  \/ \E c \in calls : RemoveUserReject(c)
  \/ Initialised /\ unlock
  \/ Initialised /\ lock
  \/ Initialised /\ destroy

Spec == Init /\ [][Next]_vars

\* the same form with a caller that also changes the submit flag
NextChange ==
  \/ Next
  \/ \E b \in BOOLEAN : Initialised /\ changeValues([submit |-> [value |-> b]])

SpecChange == Init /\ [][NextChange]_vars

\* ------------------------- several wallets, overlapping key-vault creations
\* The form is handed one of several wallet providers; the key vault that
\* KeyVault.createV0 derives is the one of the provider it was called with.
NumWallets == 2
MaxOpscVault == 2
MaxSubmitVault == 1

Wallets == 1..NumWallets

InitVault ==
  /\ values = initialMigrateFormValues
  /\ formStatus = "ACTIVE"
  /\ destroyed = FALSE
  /\ provider \in {NoProvider} \cup Wallets
  /\ keyVault = 0
  /\ listeners = [p \in Wallets |-> 0]
  /\ calls = {}
  /\ opscCount = 0
  /\ inits = 0
  /\ sync = IdleSync
  /\ runs = <<>>
  /\ rejected = "none"
  /\ sendOk = [a \in Assets |-> 0]
  /\ nothingFound = FALSE
  /\ euler = NoEulerCall
  /\ pairing = NoPairing
  /\ progress = NoRender

NextVault ==
  \/ inits < MaxInit /\ init
  \/ \E p \in Wallets :
       Initialised /\ status = CONNECT /\ opscCount + listeners[p] <= MaxOpscVault
                   /\ ProviderStateEvent(p)
  \/ \E p \in {NoProvider} \cup Wallets :
       Initialised /\ status = CONNECT /\ opscCount < MaxOpscVault /\ changeProvider(p)
  \/ \E c \in calls : CreateV0Resolve(c)
  \/ \E c \in calls : CreateV0Reject(c)
  \/ \E c \in calls : AddUserResolve(c)
  \/ \E c \in calls : AwaitUserSynchronisedResolve(c)
  \/ \E c \in calls, notes \in NoteLists : GetSpendableNotesResolve(c, notes)
  \/ \E c \in calls, fee \in Fees : SyncGetFeeResolve(c, fee)
  \/ \E c \in calls : SyncRemoveUserResolve(c)
  \/ Initialised /\ Len(runs) < MaxSubmitVault /\ submit
  \/ \E c \in calls, fee \in Fees : ValidateGetFeeResolve(c, fee)
  \/ \E c \in calls : CreateTransferProofResolve(c)
  \/ \E c \in calls : SendProofResolve(c)
  \/ \E c \in calls : AddMigratingTxResolve(c)
  \/ \E c \in calls : RemoveUserResolve(c)
  \/ Initialised /\ destroy

SpecVault == InitVault /\ [][NextVault]_vars

\* -------------------------------------- every external call is answered
\* One init(), one submit(), and every promise the form awaits settles: the
\* collaborators (key vault, account utils, SDK, database) answer each call.
MaxSubmitLive == 1

Settle ==
  \/ \E c \in calls : CreateV0Resolve(c)
  \/ \E c \in calls : CreateV0Reject(c)
  \/ \E c \in calls : AddUserResolve(c)
  \/ \E c \in calls : AddUserReject(c)
  \/ \E c \in calls : AwaitUserSynchronisedResolve(c)
  \/ \E c \in calls : AwaitUserSynchronisedReject(c)
  \/ \E c \in calls, notes \in NoteLists : GetSpendableNotesResolve(c, notes)
  \/ \E c \in calls : GetSpendableNotesReject(c)
  \/ \E c \in calls, fee \in Fees : SyncGetFeeResolve(c, fee)
  \/ \E c \in calls : SyncGetFeeReject(c)
  \/ \E c \in calls : SyncRemoveUserResolve(c)
  \/ \E c \in calls : SyncRemoveUserReject(c)
  \/ \E c \in calls, fee \in Fees : ValidateGetFeeResolve(c, fee)
  \/ \E c \in calls : ValidateGetFeeReject(c)
  \/ \E c \in calls : CreateTransferProofResolve(c)
  \/ \E c \in calls : CreateTransferProofReject(c)
  \/ \E c \in calls : SendProofResolve(c)
  \/ \E c \in calls : SendProofReject(c)
  \/ \E c \in calls : AddMigratingTxResolve(c)
  \/ \E c \in calls : AddMigratingTxReject(c)
  \/ \E c \in calls : RemoveUserResolve(c)
  \/ \E c \in calls : RemoveUserReject(c)

NextLive ==
  \/ inits < MaxInit /\ init
  \/ Initialised /\ ~processing /\ Len(runs) < MaxSubmitLive /\ submit
  \/ Settle

SpecLive == Init /\ [][NextLive]_vars /\ WF_vars(Settle)

\* ------------------------------------ EulerRedemptionBridgeData, methods
MaxAssetId == 7
MaxInputHigh == 1
MaxAux == 2
MaxContractCalls == 4

\* the low part of an input value: around the rounding of 96 % and 99 %
LowInputs == {0, 1, 99, 100, 101}

EulerIds == 0..MaxAssetId

\* h * 10^18 + l
InputValues ==
  {BigAdd(ShiftUp(FromNat(h), WadDigits), FromNat(l)) : h \in 0..MaxInputHigh, l \in LowInputs}

AuxValues == {FromNat(n) : n \in 0..MaxAux} \cup {Wad, BigAdd(Wad, <<1>>)}

\* the aux data the last getAuxData returned, if it returned a bigint
ReturnedAux ==
  IF euler.call = "getAuxData" /\ euler.result # <<Undefined>> THEN {euler.result[1]} ELSE {}

EulerCall(name) == [NoEulerCall EXCEPT !.call = name, !.contractCalls = euler.contractCalls]

getAuxData(outputAssetA) == <<minTokenOut(outputAssetA)>>

\* faulty variant: the wrong power of ten
getExpectedOutputE15(auxData, inputValue) ==
  <<LET p == BigMul(inputValue, auxData)
    IN IF Len(p) <= 5 THEN <<>> ELSE SubSeq(p, 6, Len(p))>>

getExpectedOutput(auxData, inputValue) == <<DivWad(BigMul(inputValue, auxData))>>

EulerGetAuxData(id) ==
  /\ euler' = [EulerCall("getAuxData") EXCEPT !.id = id, !.result = getAuxData(id)]
  /\ UNCHANGED <<formVars, viewVars>>

EulerGetExpectedOutput(auxData, inputValue) ==
  /\ euler' = [EulerCall("getExpectedOutput") EXCEPT
                 !.auxData = auxData, !.inputValue = inputValue,
                 !.result = getExpectedOutput(auxData, inputValue)]
  /\ UNCHANGED <<formVars, viewVars>>

EulerGetAPR ==
  /\ euler' = [EulerCall("getAPR") EXCEPT !.result = <<FromNat(0)>>]
  /\ UNCHANGED <<formVars, viewVars>>

EulerGetMarketSize(id) ==
  /\ euler' = [EulerCall("getMarketSize") EXCEPT !.id = id, !.result = <<FromNat(0)>>]
  /\ UNCHANGED <<formVars, viewVars>>

\* vault.asset(), then name(), symbol() and decimals() of the token; the
\* product with an undefined minTokenOut entry throws a TypeError
EulerGetUnderlyingAmount(id, amount) ==
  /\ euler' = [EulerCall("getUnderlyingAmount") EXCEPT
                 !.id = id, !.inputValue = amount,
                 !.contractCalls = @ + 4,
                 !.result = IF minTokenOut(id) = Undefined THEN <<>>
                            ELSE <<DivWad(BigMul(amount, minTokenOut(id)))>>,
                 !.error = IF minTokenOut(id) = Undefined THEN "TypeError" ELSE "none"]
  /\ UNCHANGED <<formVars, viewVars>>

\* throw new Error('Method not implemented.')
ThrowNotImplemented(name) ==
  /\ euler' = [EulerCall(name) EXCEPT !.error = NotImplemented]
  /\ UNCHANGED <<formVars, viewVars>>

getInteractionPresentValue == ThrowNotImplemented("getInteractionPresentValue")

\* faulty variant: a stub that returns a value
getExpirationStub ==
  /\ euler' = [EulerCall("getExpiration") EXCEPT !.result = <<FromNat(0)>>]
  /\ UNCHANGED <<formVars, viewVars>>

getExpiration == ThrowNotImplemented("getExpiration")

hasFinalised == ThrowNotImplemented("hasFinalised")

getInteractionAPR == ThrowNotImplemented("getInteractionAPR")

getTermAPR == ThrowNotImplemented("getTermAPR")

getBorrowingFee == ThrowNotImplemented("getBorrowingFee")

getCurrentCR == ThrowNotImplemented("getCurrentCR")

getUserDebtAndCollateral == ThrowNotImplemented("getUserDebtAndCollateral")

getCustomMaxPrice == ThrowNotImplemented("getCustomMaxPrice")

NextEuler ==
  \/ \E id \in EulerIds : EulerGetAuxData(id)
  \/ \E auxData \in AuxValues \cup ReturnedAux, inputValue \in InputValues :
       EulerGetExpectedOutput(auxData, inputValue)
  \/ EulerGetAPR
  \/ \E id \in EulerIds : EulerGetMarketSize(id)
  \/ \E id \in EulerIds, amount \in InputValues :
       euler.contractCalls + 4 <= MaxContractCalls /\ EulerGetUnderlyingAmount(id, amount)
  \/ getInteractionPresentValue
  \/ getExpiration
  \/ hasFinalised
  \/ getInteractionAPR
  \/ getTermAPR
  \/ getBorrowingFee
  \/ getCurrentCR
  \/ getUserDebtAndCollateral
  \/ getCustomMaxPrice

SpecEuler == Init /\ [][NextEuler]_vars

\* ------------------------------------------- getMigratableValues, alone
MaxPairNotes == 5
MaxPairValue == 2
MaxPairFee == 2

PairValues == 0..MaxPairValue
PairFees == 0..MaxPairFee
PairLists == UNION {[1..n -> PairValues] : n \in 0..MaxPairNotes}

\* syncBalance computes migratableValues from an asset's note values and
\* fee (line 229); migrateNotes splits it into pairs again (lines 273-279)
MigratePairs(vals, fee) ==
  /\ pairing' = [values |-> vals, fee |-> fee,
                 migratableValues |-> getMigratableValues(vals, fee),
                 amounts |-> AmountsFrom(getMigratableValues(vals, fee), fee, 1)]
  /\ UNCHANGED <<formVars, euler, progress>>

\* one call, on any list of note values and any fee
NextPairs == \E vals \in PairLists, fee \in PairFees : pairing = NoPairing /\ MigratePairs(vals, fee)

SpecPairs == Init /\ [][NextPairs]_vars

\* ------------------------------------------------ ProgressTemplate, render
MaxSteps == 2
MaxStepStatus == 2

StepStatuses == 0..MaxStepStatus
StepLists == UNION {[1..n -> StepStatuses] : n \in 0..MaxSteps}
Messages == {NoMessage, "", SomethingWrong}
MessageTypes == {NoMessage, "ERROR", "WARNING"}

\* one render (lines 135-137, 204-217): the steps are mapped to progress
\* rows unless the template shows success, expiry or the confirm step
Render(currentStatus, confirmStatus, doneStatus, formValid, message, messageType, steps) ==
  LET success == currentStatus = doneStatus
      expired == currentStatus = confirmStatus /\ ~formValid
      rows == IF ~success /\ ~expired /\ currentStatus # confirmStatus
              THEN [j \in 1..Len(steps) |->
                      createProgress(steps[j], currentStatus, failed(message, messageType))]
              ELSE <<>>
  IN /\ progress' = [currentStatus |-> currentStatus, confirmStatus |-> confirmStatus,
                     doneStatus |-> doneStatus, formValid |-> formValid, message |-> message,
                     messageType |-> messageType, steps |-> steps, rows |-> rows]
     /\ UNCHANGED <<formVars, euler, pairing>>

\* one render, with any props
NextRender ==
  \E currentStatus \in StepStatuses, confirmStatus \in StepStatuses, doneStatus \in StepStatuses,
     formValid \in BOOLEAN, message \in Messages, messageType \in MessageTypes,
     steps \in StepLists :
    progress = NoRender /\
    Render(currentStatus, confirmStatus, doneStatus, formValid, message, messageType, steps)

SpecRender == Init /\ [][NextRender]_vars

\* =================================================================== claims
RunIds == 1..Len(runs)

Outcome(r) == IF r \in RunIds THEN runs[r].outcome ELSE "none"

\* ---- C1
\* C1 as stated: every change of status goes from a state to its immediate
\* successor in CONNECT, SYNC, CONFIRM, VALIDATE, MIGRATE, DONE.
C1_Linear == [][status' = status \/ status' = status + 1]_vars

\* C1 amended: status leaves CONNECT for good; SYNC is entered only from
\* CONNECT, by the start of syncBalance; VALIDATE is set only by an accepted
\* submit() and from any state; CONFIRM only by the end of syncBalance or by
\* a failed validation; MIGRATE only by the start of migrateNotes; DONE only
\* by the end of migrateNotes.
C1_StatusSteps ==
  [][status' # status =>
       /\ status' # CONNECT
       /\ status' = SYNC => status = CONNECT /\ sync.pc = "idle" /\ sync'.pc = "addUser"
       /\ status' = VALIDATE => Len(runs') = Len(runs) + 1
       /\ status' = CONFIRM =>
            \/ sync.pc # "done" /\ sync'.pc = "done"
            \/ \E r \in RunIds : runs[r].pc = "validate" /\ runs'[r].outcome = "invalid"
       /\ status' = MIGRATE =>
            \E r \in RunIds : runs[r].pc = "validate" /\ runs'[r].outcome \in {"running", "failed", "returned"}
                              /\ runs'[r].pc # "validate"
       /\ status' = DONE => \E r \in RunIds : runs[r].pc = "migrate" /\ runs'[r].outcome = "done"]_vars

\* a failed validation has put the form back from VALIDATE to CONFIRM
C1_Witness == status = CONFIRM /\ \E r \in RunIds : runs[r].outcome = "invalid"

\* ---- C2
ErrorMessages == {InsufficientFee, SignatureDenied, SomethingWrong}

HasErrorMessage ==
  \E k \in DOMAIN values : values[k].messageType = "ERROR" /\ values[k].message \in ErrorMessages

\* C2 as stated: when an awaited external call of the workflow has rejected,
\* the form carries one of the three error messages on one of its values.
C2_ErrorSurfaced == rejected # "none" => HasErrorMessage

\* ---- C3
CallsBySync == {c \in calls : c.by = "sync"}

CallsByRun(r) == {c \in calls : c.by = "submit" /\ c.n = r}

\* C3 as stated: syncBalance and every submit() run have at most one
\* external call outstanding at a time.
C3_Sequential ==
  /\ Cardinality(CallsBySync) <= 1
  /\ \A r \in RunIds : Cardinality(CallsByRun(r)) <= 1

\* C3 amended: every submit() run (validation, migrateNotes) has at most one
\* external call outstanding; syncBalance awaits addUser,
\* awaitUserSynchronised and removeUser one at a time, but between them it
\* runs one getSpendableNotes-then-getFee chain per asset concurrently, so it
\* has at most one outstanding call per asset and up to one per asset at once.
C3_SequentialButAssets ==
  /\ \A r \in RunIds : Cardinality(CallsByRun(r)) <= 1
  /\ \A a \in Assets : Cardinality({c \in CallsBySync : c.asset = a}) <= 1
  /\ Cardinality({c \in CallsBySync : c.asset = 0}) <= 1
  /\ (\E c \in CallsBySync : c.asset = 0) => Cardinality(CallsBySync) = 1

\* syncBalance has one call outstanding for every asset at once
C3_Witness ==
  /\ NumAssets >= 2
  /\ \A a \in Assets : \E c \in CallsBySync : c.asset = a /\ c.op = "getSpendableNotes"

\* ---- C4
migratedValues(a) == values.migratingAssets.value[a].migratedValues

SyncFinishes == sync.pc # "done" /\ sync'.pc = "done"

\* C4 as stated: after syncBalance has set it to empty, an asset's
\* migratedValues changes only by one element appended at its end, and it
\* never holds more elements than sendProof calls for that asset resolved.
C4_Accumulated ==
  /\ [](\A a \in Assets : Len(migratedValues(a)) <= sendOk[a])
  /\ [][SyncFinishes \/
        \A a \in Assets :
          \/ migratedValues(a)' = migratedValues(a)
          \/ /\ Len(migratedValues(a)') = Len(migratedValues(a)) + 1
             /\ SubSeq(migratedValues(a)', 1, Len(migratedValues(a))) = migratedValues(a)]_vars

Running == {r \in RunIds : runs[r].pc # "ended"}

\* ---- C5
TransferOps == {"createTransferProof", "sendProof", "addMigratingTx"}

\* C5: once syncBalance has found no asset with migratable values, no
\* createTransferProof, sendProof or addMigratingTx call is ever issued and
\* every asset's migratedValues stays empty, whatever is submitted.
C5_NothingToMigrateSkips ==
  nothingFound =>
    /\ \A c \in calls : c.op \notin TransferOps
    /\ \A a \in Assets : migratedValues(a) = <<>> /\ sendOk[a] = 0

\* a submit() run went through migrateNotes after nothing was found
C5_Witness == nothingFound /\ \E r \in RunIds : runs[r].outcome = "done"

\* ---- C6
CallsOf(op) == {c \in calls : c.op = op /\ c.by = "submit"}

\* C6 as stated: once destroyed is set no createTransferProof call is
\* started, and no run of migrateNotes calls removeUser or sets status DONE.
C6_Cancelled ==
  [][destroyed =>
       /\ CallsOf("createTransferProof")' \subseteq CallsOf("createTransferProof")
       /\ CallsOf("removeUser")' \subseteq CallsOf("removeUser")
       /\ \A r \in RunIds : runs'[r].outcome = "done" => runs[r].outcome = "done"]_vars

\* C6 amended: once destroyed is set no createTransferProof call is
\* started; a run that comes to the check with a pair left returns there,
\* calling no removeUser and leaving status alone; a run with no pair left
\* (nothing to migrate, or its last transfer was past the check) never comes
\* to the check: it still calls removeUser and then sets status DONE.
C6_CancelledBetweenIterations ==
  [][destroyed =>
       /\ CallsOf("createTransferProof")' \subseteq CallsOf("createTransferProof")
       /\ \A r \in RunIds :
            /\ (runs'[r].outcome = "returned" /\ runs[r].outcome # "returned") =>
                 /\ CallsByRun(r)' = {}
                 /\ status' = IF runs[r].pc = "validate" THEN MIGRATE ELSE status
                 /\ formStatus' = "LOCKED"
            /\ (CallsByRun(r)' \cap CallsOf("removeUser")') \ CallsByRun(r) # {} =>
                 IF runs[r].pc = "validate"
                 THEN NextPair(runs'[r].assets, 1, 1) = NoPair
                 ELSE NextPair(runs[r].assets, runs[r].a, runs[r].i + 2) = NoPair]_vars

\* a run of migrateNotes has returned at the check of destroyed
C6_Witness == destroyed /\ \E r \in RunIds : runs[r].outcome = "returned"

\* ---- C9
\* C9: the step of submit() in which validation finds the quoted fee above
\* an asset's recorded fee ends that run with no transfer call issued, the
\* 'Insufficient fee.' error on migratingAssets, status CONFIRM, submit.value
\* false and formStatus LOCKED; the run issues no call afterwards.
C9_InsufficientFee ==
  /\ [](\A r \in RunIds : runs[r].insufficient =>
          runs[r].outcome = "invalid" /\ CallsByRun(r) = {})
  /\ [][\A r \in RunIds :
          (runs'[r].insufficient /\ ~runs[r].insufficient) =>
            /\ values'.migratingAssets.messageType = "ERROR"
            /\ values'.migratingAssets.message = InsufficientFee
            /\ status' = CONFIRM
            /\ values'.submit.value = FALSE
            /\ formStatus' = "LOCKED"]_vars

\* a validation found the fee insufficient after syncBalance recorded fees
C9_Witness == sync.pc = "done" /\ \E r \in RunIds : runs[r].insufficient

\* ---- C10
\* C10 as stated: at most one submit() run is in progress at any time.
C10_OneSubmit == Cardinality(Running) <= 1

\* ---- C11
\* C11 as stated: no pair <<asset, i>> of migratableValues has its sendProof
\* resolve in two different submit() runs (one run's loops visit each pair
\* once), retries after a failed run included.
C11_SentOnce ==
  \A r1 \in RunIds, r2 \in RunIds : r1 # r2 => runs[r1].sent \cap runs[r2].sent = {}

\* ---- C12
\* C12 as stated: the key vault a run of migrateNotes took (line 269) is the
\* key vault syncBalance took (line 217) to read the balances.
C12_SameKeyVault ==
  \A r \in RunIds : (runs[r].pc = "migrate" /\ sync.pc = "done") => runs[r].vault = sync.vault

\* ---- C13
\* C13 as stated: when every external call settles, a form that is
\* PROCESSING eventually becomes LOCKED.
C13_Unstuck == (formStatus = "PROCESSING") ~> (formStatus = "LOCKED")

\* ---- C14
\* C14: syncBalance starts (issues its addUser call) only when it has never
\* started before and the form is not destroyed; once started it never
\* returns to the state before its start.
C14_SyncOnce ==
  /\ [][sync.pc # "idle" => sync'.pc # "idle"]_vars
  /\ [][{c \in calls' : c.op = "addUser"} \ calls # {} =>
          sync.pc = "idle" /\ ~destroyed /\ status = CONNECT /\ status' = SYNC]_vars

\* a second key-vault creation, for another wallet, resolved after syncBalance
\* had started
C14_Witness == sync.pc # "idle" /\ opscCount >= 2 /\ keyVault # sync.vault

\* ---- C15
\* C15 as stated: when status is DONE every asset has one migrated value per
\* pair of migratableValues, and the migrated values plus totalFee add up to
\* the migratable values, totalFee being fee times the number of pairs.
C15_Conserved ==
  status = DONE =>
    \A a \in Assets :
      LET asset == values.migratingAssets.value[a]
          pairs == CeilHalf(Len(asset.migratableValues))
      IN /\ Len(asset.migratedValues) = pairs
         /\ asset.totalFee = asset.fee * pairs
         /\ SumSeq(asset.migratedValues) + asset.totalFee = SumSeq(asset.migratableValues)

\* ---- C16
\* the slices s.slice(i, i + 2) for i = 0, 2, 4, ..
RECURSIVE SlicesFrom(_, _)
SlicesFrom(s, i) == IF i > Len(s) THEN <<>> ELSE <<Slice2(s, i)>> \o SlicesFrom(s, i + 2)

KeptSlices(vals, fee) == SelectSeq(SlicesFrom(vals, 1), LAMBDA noteValues : SumSeq(noteValues) > fee)

\* C16: getMigratableValues(values, fee) split into consecutive pairs is
\* exactly the sequence of consecutive pairs of values whose sum is greater
\* than fee, and the amount migrateNotes computes for each of them, its sum
\* minus fee, is greater than 0.
C16_PositiveAmounts ==
  LET kept == KeptSlices(pairing.values, pairing.fee)
  IN /\ SlicesFrom(pairing.migratableValues, 1) = kept
     /\ Len(pairing.amounts) = Len(kept)
     /\ \A j \in 1..Len(kept) :
          pairing.amounts[j] = SumSeq(kept[j]) - pairing.fee /\ pairing.amounts[j] > 0

\* five notes: the first pair is dropped, the second pair and the last,
\* single note are kept
C16_Witness ==
  /\ Len(pairing.values) = 5
  /\ pairing.fee > 0
  /\ SumSeq(SubSeq(pairing.values, 1, 2)) <= pairing.fee
  /\ Len(pairing.migratableValues) = 3
  /\ Len(pairing.amounts) = 2

\* ---- C17
RowFlags == {"done", "isLoading", "failed", "inactive"}

\* C17: every progress row has exactly one of done, isLoading, failed and
\* inactive set: done iff the step is before currentStatus, inactive iff it
\* is after it, and at currentStatus failed iff messageType is ERROR with a
\* non-empty message, isLoading otherwise; with distinct step statuses at
\* most one row is loading or failed.
C17_OneFlag ==
  /\ \A j \in 1..Len(progress.rows) :
       LET row == progress.rows[j]
           step == progress.steps[j]
           error == progress.messageType = "ERROR" /\ progress.message # NoMessage
                    /\ progress.message # ""
       IN /\ Cardinality({f \in RowFlags : row[f]}) = 1
          /\ row.done <=> step < progress.currentStatus
          /\ row.inactive <=> step > progress.currentStatus
          /\ row.failed <=> (step = progress.currentStatus /\ error)
          /\ row.isLoading <=> (step = progress.currentStatus /\ ~error)
  /\ (\A j, k \in 1..Len(progress.steps) : j # k => progress.steps[j] # progress.steps[k]) =>
       Cardinality({j \in 1..Len(progress.rows) :
                      progress.rows[j].isLoading \/ progress.rows[j].failed}) <= 1

\* two steps rendered, the current one failed and the other done
C17_Witness ==
  /\ Len(progress.rows) = 2
  /\ \E j, k \in 1..2 : progress.rows[j].failed /\ progress.rows[k].done

\* ---- C7
ListedIds == {0, 1, 2, 5, 6, 7}

Ten16 == BigMul(FromNat(100000000), FromNat(100000000))

ListedMinTokenOut(id) == BigMul(FromNat(IF id \in {1, 7} THEN 96 ELSE 99), Ten16)

\* C7: getExpectedOutput returns the one value q with
\* q * 10^18 <= inputValue * auxData < (q + 1) * 10^18; getAuxData returns
\* the one constant minTokenOut[outputAssetA.id] (99 * 10^16 for ids 0, 2,
\* 5, 6 and 96 * 10^16 for ids 1, 7); and with the aux data getAuxData
\* returned for a listed id, the expected output is at most inputValue.
C7_EulerArithmetic ==
  /\ euler.call = "getExpectedOutput" =>
       /\ Len(euler.result) = 1
       /\ LET q == euler.result[1]
              p == BigMul(euler.inputValue, euler.auxData)
          IN BigLeq(BigMul(q, Wad), p) /\ BigLess(p, BigMul(BigAdd(q, <<1>>), Wad))
       /\ euler.auxData \in {ListedMinTokenOut(id) : id \in ListedIds} =>
            BigLeq(euler.result[1], euler.inputValue)
  /\ (euler.call = "getAuxData" /\ euler.id \in ListedIds) =>
       euler.result = <<ListedMinTokenOut(euler.id)>>

\* 101 units at 96 % give 96 units, rounded down from 96.96
C7_Witness ==
  /\ euler.call = "getExpectedOutput"
  /\ euler.auxData = ListedMinTokenOut(1)
  /\ euler.inputValue = FromNat(101)
  /\ euler.result = <<FromNat(96)>>

\* ---- C8
Unimplemented ==
  {"getInteractionPresentValue", "getExpiration", "hasFinalised", "getInteractionAPR",
   "getTermAPR", "getBorrowingFee", "getCurrentCR", "getUserDebtAndCollateral",
   "getCustomMaxPrice"}

\* C8: a call of an unimplemented method ends with the error 'Method not
\* implemented.', returns nothing, and issues no contract call.
C8_NotImplemented ==
  /\ [](euler.call \in Unimplemented => euler.error = NotImplemented /\ euler.result = <<>>)
  /\ [][euler'.call \in Unimplemented => euler'.contractCalls = euler.contractCalls]_vars

\* an unimplemented method was called after the adapter had made contract calls
C8_Witness == euler.call = "getExpiration" /\ euler.contractCalls > 0

====
